---- MODULE Spec2Model ----
(***************************************************************************)
(* Configuration-driven state machines of JohnReeves/state-machines.       *)
(*                                                                         *)
(* Three programs are modelled, selected by the variable program:          *)
(*   "cli"      - cli_state_machine.py: one StateMachine driven            *)
(*                synchronously by the commands run / goto / goback /      *)
(*                reset; it keeps state_history.                           *)
(*   "run_both" - cli_state_machine.py: the two machines of load_two run   *)
(*                by the two tasks of run_both.                            *)
(*   "basic"    - basic_state_machine.py: two StateMachine objects, each   *)
(*                with an asyncio queue and a run() loop, forwarding       *)
(*                events to each other's queue.                            *)
(* Spec is all of them; SpecMain, SpecTimeout, SpecRewind and SpecScript   *)
(* are particular uses of one of them.                                     *)
(* The JSON configuration files are not part of the sources; the tables    *)
(* below are example configurations (the elevator table of the             *)
(* specification, extended with guarded rules, a timeout rule and a rule   *)
(* without target, and a vending table for the second machine).            *)
(***************************************************************************)
EXTENDS Integers, Sequences, FiniteSets, TLC

VARIABLES
    program,              \* which script is running: "cli" (one machine at the
                          \* prompt), "run_both" (the cli's run_both) or "basic"
    \* ---- cli_state_machine.py : StateMachine
    current_state,        \* self.current_state
    state_history,        \* self.state_history
    pending,              \* events run_sequence still has to process
    log,                  \* the last logging record of the cli machine
    \* ---- basic_state_machine.py : StateMachine (one per machine)
    mstate,               \* m -> self.current_state
    queue,                \* m -> self.queue (asyncio.Queue contents)
    other_machine_queue,  \* m -> machine owning self.other_machine_queue, 0 = None
    timeout_duration,     \* m -> self.timeout_duration
    timeout_task,         \* m -> self.timeout_task
    running,              \* m -> run() is still inside its while loop
    received,             \* m -> events run() has taken from the queue, in order
    enqueued,             \* m -> events ever put on m's queue, in order
    rlog,                 \* the last logging record of a runner
    \* ---- cli_state_machine.py : scripted sessions and run_both
    script,               \* a scripted session of the cli machine, see SpecScript
    both                  \* the two machines of load_two and the tasks of run_both

cliVars == <<current_state, state_history, pending, log>>
runVars == <<mstate, queue, other_machine_queue, timeout_duration, timeout_task,
             running, received, enqueued, rlog>>
vars == <<program, current_state, state_history, pending, log, mstate, queue,
          other_machine_queue, timeout_duration, timeout_task, running,
          received, enqueued, rlog, script, both>>

----------------------------------------------------------------------------
(* Bounds of the model *)

MaxHist == 5     \* longest state_history explored
MaxSteps == 3    \* largest argument of goback explored
MaxSeed == 2     \* longest list of seed events put on a queue before terminate
MaxSequence == 4 \* longest event_sequence of a scripted session
MaxBoth == 2     \* longest event_sequence of a machine of run_both

----------------------------------------------------------------------------
(* Python values *)

None == "None"          \* Python's None where a string is expected
NoTimeout == -1         \* Python's None where a number of seconds is expected
NoTask == "None"        \* Python's None for self.timeout_task

\* d.get(k, default) on a dict modelled as a function
DictGet(d, k, default) == IF k \in DOMAIN d THEN d[k] ELSE default

EmptyDict == [k \in {} |-> None]

\* seq[i] with Python's indexing (0-based, negative from the end)
PyIndexOk(seq, i) == IF i >= 0 THEN i < Len(seq) ELSE -i <= Len(seq)
PyIndex(seq, i) == IF i >= 0 THEN seq[i + 1] ELSE seq[Len(seq) + i + 1]

\* seq[:j] with Python's slicing
PySliceTo(seq, j) ==
    LET stop == IF j >= 0
                THEN (IF j < Len(seq) THEN j ELSE Len(seq))
                ELSE (IF Len(seq) + j > 0 THEN Len(seq) + j ELSE 0)
    IN SubSeq(seq, 1, stop)

----------------------------------------------------------------------------
(* Configurations (the parsed JSON) *)

\* a transition value that is a bare string
Str(target) == [kind |-> "str", value |-> target]
\* a transition value that is an object; absent keys are None / NoTimeout
Dict(target, guard, timeout) ==
    [kind |-> "dict", target |-> target, guard |-> guard, timeout |-> timeout]

ElevatorTransitions ==
    [Idle      |-> [start             |-> Str("Idle"),
                    up                |-> Str("MovingUp"),
                    emergency_trigger |-> Str("Emergency"),
                    door_open         |-> Dict("DoorOpen", "is_system_ready", NoTimeout)],
     MovingUp  |-> [stop              |-> Str("Idle"),
                    emergency_trigger |-> Str("Emergency")],
     DoorOpen  |-> [door_close        |-> Dict("Idle", "is_door_clear", NoTimeout),
                    timeout           |-> Dict("Idle", None, 100)],
     Emergency |-> [reset             |-> Str("Idle"),
                    repair            |-> Dict("Idle", "is_authorized", NoTimeout),
                    fault             |-> Dict(None, None, 50)]]

ElevatorCommunications ==
    [Emergency |-> [emergency_trigger |-> [event |-> "out_of_service"]],
     Idle      |-> [repair            |-> [event |-> "repair"],
                    reset             |-> [event |-> "repair"]]]

ElevatorEventSequence == <<"up", "stop", "emergency_trigger", "reset">>

VendingTransitions ==
    [Ready        |-> [start          |-> Str("Ready"),
                       insert_money   |-> Str("HasMoney"),
                       out_of_service |-> Str("OutOfService")],
     HasMoney     |-> [select_item    |-> Dict("Ready", "is_system_ready", NoTimeout),
                       cancel         |-> Str("Ready"),
                       out_of_service |-> Str("OutOfService")],
     OutOfService |-> [repair         |-> Str("Ready")]]

VendingCommunications ==
    [OutOfService |-> [out_of_service |-> [event |-> "emergency_trigger"]]]

\* guard_functions handed to the constructor: the registered guard names
GuardFunctions == {"is_system_ready", "is_door_clear"}

\* what a registered guard function may return when called
GuardReturns(guard) == IF guard = "is_system_ready" THEN {TRUE} ELSE BOOLEAN

----------------------------------------------------------------------------
(* cli_state_machine.py : StateMachine *)

initial_state == "Idle"
transition_matrix == ElevatorTransitions
event_sequence == ElevatorEventSequence

CliEvents == {"start", "up", "stop", "emergency_trigger", "reset", "door_open",
              "door_close", "timeout", "repair", "fault", "select_item"}
GotoStates == DOMAIN transition_matrix \cup {"Basement"}

\* if isinstance(transition, str): transition = {"target": transition}
Normalize(raw) ==
    IF raw.kind = "str" THEN [target |-> raw.value, guard |-> None]
    ELSE [target |-> raw.target, guard |-> raw.guard]

\* Mutant of Outcome: the guard of the rule is never consulted.
OutcomeGuardIgnored(matrix, state, event, r) ==
    LET current_transitions == DictGet(matrix, state, EmptyDict) IN
    IF event \notin DOMAIN current_transitions THEN "invalid"
    ELSE IF Normalize(current_transitions[event]).target = None THEN "key_error"
    ELSE "applied"

\* The decision taken by transition(event) in state `state`, where r is what
\* the guard function returns if it is called.
Outcome(matrix, state, event, r) ==
    LET current_transitions == DictGet(matrix, state, EmptyDict) IN
    IF event \notin DOMAIN current_transitions THEN "invalid"
    ELSE LET transition == Normalize(current_transitions[event]) IN
         IF transition.guard # None /\ transition.guard \notin GuardFunctions
            THEN "guard_missing"
         ELSE IF transition.guard # None /\ ~r THEN "guard_false"
         ELSE IF transition.target = None THEN "key_error"
         ELSE "applied"

Target(matrix, state, event) == Normalize(matrix[state][event]).target
Guard(matrix, state, event) == Normalize(matrix[state][event]).guard

\* the guard return values to consider for (state, event)
Returns(matrix, state, event) ==
    LET current_transitions == DictGet(matrix, state, EmptyDict) IN
    IF event \in DOMAIN current_transitions
       /\ Guard(matrix, state, event) \in GuardFunctions
    THEN GuardReturns(Guard(matrix, state, event))
    ELSE {TRUE}

\* a logging record: the operation, its argument (event or state), the steps of
\* goback, the state it was called in, what it decided, and what the guard
\* function returned (TRUE when none was called)
LogRecord(op, arg, steps, state, outcome, returned) ==
    [op |-> op, arg |-> arg, steps |-> steps, state |-> state, outcome |-> outcome,
     returned |-> returned]

\* Mutant of HistoryAfterTransition: an applied transition starts the
\* history afresh.
HistoryRestarted(history, state, outcome) ==
    IF outcome = "applied" THEN <<state>>
    ELSE IF outcome = "key_error" THEN Append(history, state)
    ELSE history

\* Mutant of HistoryAfterTransition: the old state is not recorded.
HistoryNotRecorded(history, state, outcome) == history

\* state_history after transition(event) decided `outcome`
HistoryAfterTransition(history, state, outcome) ==
    IF outcome \in {"applied", "key_error"} THEN Append(history, state) ELSE history

\* Mutant of StateAfterTransition: a rule without target sets the state to
\* None (transition.get("target")) instead of raising.
StateAfterTransitionOrNone(state, event, outcome) ==
    IF outcome \in {"applied", "key_error"}
    THEN Target(transition_matrix, state, event) ELSE state

\* Mutant of StateAfterTransition: no transition moves the machine.
StateAfterTransitionKept(state, event, outcome) == state

\* self.current_state after transition(event) decided `outcome`
StateAfterTransition(state, event, outcome) ==
    IF outcome = "applied" THEN Target(transition_matrix, state, event) ELSE state

\* StateMachine.transition(event)
Transition(event, r) ==
    LET outcome == Outcome(transition_matrix, current_state, event, r) IN
    /\ state_history' = HistoryAfterTransition(state_history, current_state, outcome)
    /\ current_state' = StateAfterTransition(current_state, event, outcome)
    /\ log' = LogRecord("transition", event, 0, current_state, outcome, r)

\* do_run / run_all: the event lists handed to run_sequence
RunInputs == {<<e>> : e \in CliEvents}
             \cup {event_sequence, <<"emergency_trigger", "fault", "reset">>}

\* what run_sequence still has to process after transition(Head(events))
\* decided `outcome`: a KeyError leaves the loop
Remaining(events, outcome) == IF outcome = "key_error" THEN <<>> ELSE Tail(events)

\* run_sequence(events): the loop is entered and its first iteration runs
RunSequence(events) ==
    /\ program = "cli"
    /\ pending = <<>>
    /\ Len(state_history) + Len(events) <= MaxHist
    /\ \E r \in Returns(transition_matrix, current_state, Head(events)) :
         /\ Transition(Head(events), r)
         /\ pending' = Remaining(events,
                          Outcome(transition_matrix, current_state, Head(events), r))
    /\ UNCHANGED <<program, runVars, script, both>>

\* a later iteration of run_sequence's loop
RunSequenceStep ==
    /\ program = "cli"
    /\ pending # <<>>
    /\ \E r \in Returns(transition_matrix, current_state, Head(pending)) :
         /\ Transition(Head(pending), r)
         /\ pending' = Remaining(pending,
                          Outcome(transition_matrix, current_state, Head(pending), r))
    /\ UNCHANGED <<program, runVars, script, both>>

\* Mutant of ResetState: reset leaves the machine where it is.
ResetStateKept(state) == state

\* self.current_state after reset()
ResetState(state) == initial_state

\* Mutant of ResetHistory: reset also wipes the history.
ResetHistoryCleared(history) == <<initial_state>>

\* self.state_history after reset(): not touched
ResetHistory(history) == history

\* StateMachine.reset()
Reset ==
    /\ program = "cli"
    /\ pending = <<>>
    /\ current_state' = ResetState(current_state)
    /\ state_history' = ResetHistory(state_history)
    /\ log' = LogRecord("reset", None, 0, current_state, "reset", TRUE)
    /\ UNCHANGED pending
    /\ UNCHANGED <<program, runVars, script, both>>

\* Mutant of GotoState: the jump is made without looking the state up.
GotoStateUnchecked(state, target) == target

\* self.current_state after goto(target)
GotoState(state, target) ==
    IF target \notin DOMAIN transition_matrix THEN state ELSE target

\* self.state_history after goto(target): self.state_history.append(state)
GotoHistory(history, target) ==
    IF target \notin DOMAIN transition_matrix THEN history ELSE Append(history, target)

\* StateMachine.goto(state)
Goto(state) ==
    /\ program = "cli"
    /\ pending = <<>>
    /\ Len(state_history) < MaxHist
    /\ current_state' = GotoState(current_state, state)
    /\ state_history' = GotoHistory(state_history, state)
    /\ log' = LogRecord("goto", state, 0, current_state,
                        IF state \notin DOMAIN transition_matrix
                        THEN "no_such_state" ELSE "goto", TRUE)
    /\ UNCHANGED pending
    /\ UNCHANGED <<program, runVars, script, both>>

\* what goback(steps) decides
GobackOutcome(history, steps) ==
    IF steps > Len(history) - 1 THEN "not_available"
    ELSE IF ~PyIndexOk(history, -(steps + 1)) THEN "index_error"
    ELSE "reverted"

\* self.current_state after goback(steps): self.state_history[-(steps + 1)]
GobackState(history, state, steps) ==
    IF GobackOutcome(history, steps) = "reverted"
    THEN PyIndex(history, -(steps + 1))
    ELSE state

\* Mutant of GobackHistory: one entry more than asked is cut off.
GobackHistoryOneMore(history, steps) ==
    IF GobackOutcome(history, steps) = "reverted"
    THEN PySliceTo(history, -(steps + 1))
    ELSE history

\* Mutant of GobackHistory: too many steps collapse the history to the
\* initial state instead of leaving it alone.
GobackHistoryClamped(history, steps) ==
    IF steps > Len(history) - 1 THEN <<initial_state>>
    ELSE IF GobackOutcome(history, steps) = "reverted" THEN PySliceTo(history, -steps)
    ELSE history

\* self.state_history after goback(steps): self.state_history[:-(steps)]
GobackHistory(history, steps) ==
    IF GobackOutcome(history, steps) = "reverted"
    THEN PySliceTo(history, -steps)
    ELSE history

\* StateMachine.goback(steps)
Goback(steps) ==
    /\ program = "cli"
    /\ pending = <<>>
    /\ current_state' = GobackState(state_history, current_state, steps)
    /\ state_history' = GobackHistory(state_history, steps)
    /\ log' = LogRecord("goback", None, steps, current_state,
                        GobackOutcome(state_history, steps), TRUE)
    /\ UNCHANGED pending
    /\ UNCHANGED <<program, runVars, script, both>>

\* load_state_machine()
InitCli ==
    /\ current_state = initial_state
    /\ state_history = <<initial_state>>
    /\ pending = <<>>
    /\ log = LogRecord("load", None, 0, initial_state, "loaded", TRUE)

NextCli ==
    \/ \E events \in RunInputs : RunSequence(events)
    \/ RunSequenceStep
    \/ Reset
    \/ \E state \in GotoStates : Goto(state)
    \/ \E steps \in -1 .. MaxSteps : Goback(steps)

\* the commands of the prompt, goback being given at least one step
NextCliRewind ==
    \/ \E events \in RunInputs : RunSequence(events)
    \/ RunSequenceStep
    \/ Reset
    \/ \E state \in GotoStates : Goto(state)
    \/ \E steps \in 1 .. MaxSteps : Goback(steps)

----------------------------------------------------------------------------
(* basic_state_machine.py : StateMachine, run() and main() *)

Machines == {1, 2}
Peer(m) == 3 - m

\* load_state_machine(): config["transitions"], config["communications"],
\* config["initial_state"] of the file given to machine m
MachineTransitions(m) == IF m = 1 THEN ElevatorTransitions ELSE VendingTransitions
MachineCommunications(m) ==
    IF m = 1 THEN ElevatorCommunications ELSE VendingCommunications
MachineInitialState(m) == IF m = 1 THEN "Idle" ELSE "Ready"

\* the events main() may put on machine m's queue between "start" and "terminate"
SeedEvents(m) ==
    IF m = 1 THEN {"emergency_trigger", "door_open", "door_close", "repair", "fault"}
    ELSE {"insert_money", "out_of_service"}
Seeds(m) == UNION {[1 .. n -> SeedEvents(m)] : n \in 0 .. MaxSeed}

\* the decision taken by transition(event) of machine m in state `state`
MachineOutcome(m, state, event, r) ==
    LET current_transitions == DictGet(MachineTransitions(m), state, EmptyDict) IN
    IF event \notin DOMAIN current_transitions THEN "invalid"
    ELSE LET raw == current_transitions[event]
             transition == IF raw.kind = "str"
                           THEN [target |-> raw.value, guard |-> None]
                           ELSE [target |-> raw.target, guard |-> raw.guard]
         IN
         IF transition.guard # None /\ transition.guard \notin GuardFunctions
            THEN "guard_missing"
         ELSE IF transition.guard # None /\ ~r THEN "guard_false"
         ELSE IF transition.target = None THEN "key_error"
         ELSE "applied"

\* Mutant of MachineStateAfter: an event that is invalid in the current state
\* is applied with the rule the initial state has for it.
MachineStateAfterInitialRules(m, state, event, outcome) ==
    IF outcome = "applied" THEN Target(MachineTransitions(m), state, event)
    ELSE IF /\ outcome = "invalid"
            /\ event \in DOMAIN MachineTransitions(m)[MachineInitialState(m)]
         THEN Target(MachineTransitions(m), MachineInitialState(m), event)
    ELSE state

\* Mutant of MachineStateAfter: an event that is not applied sends the machine
\* back to its initial state.
MachineStateAfterOrInitial(m, state, event, outcome) ==
    IF outcome = "applied" THEN Target(MachineTransitions(m), state, event)
    ELSE MachineInitialState(m)

\* self.current_state after transition(event) decided `outcome`
MachineStateAfter(m, state, event, outcome) ==
    IF outcome = "applied" THEN Target(MachineTransitions(m), state, event) ELSE state

\* Mutant of CommsEvent: the event is sent without looking whether there is a
\* queue to send it to.
CommsEventUnchecked(m, new_state, event) ==
    LET communications == MachineCommunications(m) IN
    IF new_state \in DOMAIN communications
    THEN LET comms == DictGet(communications[new_state], event, EmptyDict) IN
         IF comms # EmptyDict THEN DictGet(comms, "event", None) ELSE None
    ELSE None

\* the event transition(event) puts on other_machine_queue once it has entered
\* new_state, None if it puts nothing
CommsEvent(m, new_state, event) ==
    LET communications == MachineCommunications(m) IN
    IF new_state \in DOMAIN communications
    THEN LET comms == DictGet(communications[new_state], event, EmptyDict) IN
         IF comms # EmptyDict /\ other_machine_queue[m] # 0
         THEN DictGet(comms, "event", None)
         ELSE None
    ELSE None

\* Mutant of Forwarded: the communications table is consulted whether or not
\* the event was applied.
ForwardedAlways(m, new_state, event, outcome) == CommsEvent(m, new_state, event)

\* Mutant of Forwarded: nothing is ever sent.
ForwardedNever(m, new_state, event, outcome) == None

\* what transition(event) sends to the peer, None if nothing
Forwarded(m, new_state, event, outcome) ==
    IF outcome = "applied" THEN CommsEvent(m, new_state, event) ELSE None

\* Mutant of QueueGet: the newest event is taken first.
QueueGetNewest(q) == q[Len(q)]

\* queue.get(): the event taken and what stays in the queue
QueueGet(q) == Head(q)
QueueRest(q) == Tail(q)

\* Mutant of InLoop: terminate does not leave the loop.
InLoopForever(m) == TRUE

\* while True: ... break
InLoop(m) == running[m]

\* Mutant of SeededQueue: terminate is not on the queue when the runners start.
SeededQueueOpen(seed) == <<"start">> \o seed

\* main(): queue.put("start"), queue.put(e) for the events, queue.put("terminate")
SeededQueue(seed) == <<"start">> \o seed \o <<"terminate">>

\* Mutant of Terminates: no event makes run() break out of its loop.
TerminatesNever(event) == FALSE

\* Mutant of Terminates: the first event of any name makes run() break.
TerminatesOnAnyEvent(event) == TRUE

\* if event == "terminate": ... break
Terminates(event) == event = "terminate"

\* Mutant of StaysInLoop: an exception raised by transition() ends run().
StaysInLoopUnlessRaised(outcome) == outcome # "key_error"

\* whether run() is still in its loop after transition(event) decided `outcome`:
\* transition returns, or raises and `except Exception` logs the error; either
\* way the next iteration of `while True` starts
StaysInLoop(outcome) == TRUE

\* asyncio.wait_for(self.queue.get(), timeout=self.timeout_duration)
WaitTimeout(m) == timeout_duration[m]

\* a logging record of machine m: the event received, the state it was received
\* in, what transition decided, what the guard function returned (TRUE when none
\* was called) and the event sent to the other machine
RunLog(m, event, state, outcome, returned, sent) ==
    [machine |-> m, event |-> event, state |-> state, outcome |-> outcome,
     returned |-> returned, sent |-> sent]

\* One iteration of run(): an event is taken from the queue and handled.
\* The iteration is one step: with timeout None and a non-empty queue wait_for
\* returns without suspending, and put on an unbounded asyncio.Queue never
\* suspends, so no other coroutine runs between the get and the put.  The two
\* run() coroutines are interleaved at iteration boundaries in every order,
\* which includes the order the event loop produces.
Run(m) ==
    /\ program = "basic"
    /\ InLoop(m)
    /\ queue[m] # <<>>
    /\ LET event == QueueGet(queue[m]) IN
       /\ received' = [received EXCEPT ![m] = Append(@, event)]
       /\ IF Terminates(event)
          THEN /\ running' = [running EXCEPT ![m] = FALSE]
               /\ queue' = [queue EXCEPT ![m] = QueueRest(@)]
               /\ rlog' = RunLog(m, event, mstate[m], "terminated", TRUE, None)
               /\ UNCHANGED <<mstate, enqueued>>
          ELSE \E r \in Returns(MachineTransitions(m), mstate[m], event) :
               LET outcome == MachineOutcome(m, mstate[m], event, r)
                   new_state == MachineStateAfter(m, mstate[m], event, outcome)
                   sent == Forwarded(m, new_state, event, outcome)
                   taken == [queue EXCEPT ![m] = QueueRest(@)]
               IN
               /\ mstate' = [mstate EXCEPT ![m] = new_state]
               /\ queue' = IF sent # None
                           THEN [taken EXCEPT ![other_machine_queue[m]] = Append(@, sent)]
                           ELSE taken
               /\ enqueued' = IF sent # None
                              THEN [enqueued EXCEPT ![other_machine_queue[m]] =
                                                        Append(@, sent)]
                              ELSE enqueued
               /\ rlog' = RunLog(m, event, mstate[m], outcome, r, sent)
               /\ running' = [running EXCEPT ![m] = StaysInLoop(outcome)]
    /\ UNCHANGED <<other_machine_queue, timeout_duration, timeout_task>>
    /\ UNCHANGED <<program, cliVars, script, both>>

\* Mutant of StaysInLoopAfterTimeout: a timeout in a state without a "timeout"
\* rule ends run().
StaysInLoopOnlyWithRule(outcome) == outcome \notin {"key_error", "no_timeout_rule"}

\* whether run() is still in its loop after the TimeoutError handler: the
\* handler logs, or calls transition("timeout"); an exception raised by that call
\* inside the handler is not caught by the `except Exception` of the same try
StaysInLoopAfterTimeout(outcome) == outcome # "key_error"

\* except asyncio.TimeoutError: the wait on the queue timed out.  wait_for is
\* always called with timeout_duration, which nothing in the sources sets, so
\* this handler is not part of Next; it runs in SpecTimeout, where the code
\* that constructed the machine has assigned machine.timeout_duration.
RunTimeout(m) ==
    /\ program = "basic"
    /\ InLoop(m)
    /\ queue[m] = <<>>
    /\ WaitTimeout(m) # NoTimeout
    /\ LET has_rule == "timeout" \in DOMAIN DictGet(MachineTransitions(m), mstate[m],
                                                    EmptyDict)
           outcome == IF has_rule
                      THEN MachineOutcome(m, mstate[m], "timeout", TRUE)
                      ELSE "no_timeout_rule"
           new_state == MachineStateAfter(m, mstate[m], "timeout", outcome)
           sent == Forwarded(m, new_state, "timeout", outcome)
       IN
       /\ mstate' = [mstate EXCEPT ![m] = new_state]
       /\ queue' = IF sent # None
                   THEN [queue EXCEPT ![other_machine_queue[m]] = Append(@, sent)]
                   ELSE queue
       /\ enqueued' = IF sent # None
                      THEN [enqueued EXCEPT ![other_machine_queue[m]] = Append(@, sent)]
                      ELSE enqueued
       /\ rlog' = RunLog(m, "timeout", mstate[m], outcome, TRUE, sent)
       /\ running' = [running EXCEPT ![m] = StaysInLoopAfterTimeout(outcome)]
    /\ UNCHANGED <<received, other_machine_queue, timeout_duration, timeout_task>>
    /\ UNCHANGED <<program, cliVars, script, both>>

\* StateMachine.__init__ for both machines
InitMachines ==
    /\ mstate = [m \in Machines |-> MachineInitialState(m)]
    /\ timeout_duration = [m \in Machines |-> NoTimeout]
    /\ timeout_task = [m \in Machines |-> NoTask]
    /\ rlog = RunLog(0, None, None, "constructed", TRUE, None)

\* main(): the queues are filled with "start", the events and "terminate",
\* then both run() coroutines are started.  The constructor takes the other
\* machine's queue as a parameter, which may be None (0).
InitBasic ==
    /\ InitMachines
    /\ other_machine_queue \in [Machines -> {0} \cup Machines]
    /\ \A m \in Machines : other_machine_queue[m] \in {0, Peer(m)}
    /\ \E seed \in [Machines -> Seeds(1) \cup Seeds(2)] :
         /\ \A m \in Machines : seed[m] \in Seeds(m)
         /\ queue = [m \in Machines |-> SeededQueue(seed[m])]
    /\ enqueued = queue
    /\ received = [m \in Machines |-> <<>>]
    /\ running = [m \in Machines |-> TRUE]

\* the cli program never builds the queue-driven machines
InitNoMachines ==
    /\ InitMachines
    /\ other_machine_queue = [m \in Machines |-> 0]
    /\ queue = [m \in Machines |-> <<>>]
    /\ enqueued = queue
    /\ received = [m \in Machines |-> <<>>]
    /\ running = [m \in Machines |-> FALSE]

NextBasic == \E m \in Machines : Run(m)

----------------------------------------------------------------------------
(* cli_state_machine.py : a scripted session of one machine *)

\* A scripted session is one freshly loaded machine given the commands
\*     run_all ; reset ; run_all        or        run_all ; goback n
\* with a configuration whose event_sequence is `sequence` and a guard function
\* is_door_clear that returns `door_clear` every time it is called.
\* `occupied` lists the states the machine occupied during the first run_all:
\* the initial state and the state entered by every applied transition;
\* `first_final` is current_state at the end of the first run_all.

\* no scripted session
NoScript ==
    [phase |-> "none", sequence |-> <<>>, door_clear |-> TRUE, occupied |-> <<>>,
     first_final |-> None, steps |-> 0]

\* the event_sequence lists of the configurations explored
ScriptEvents == {"up", "stop", "emergency_trigger", "reset", "door_open",
                 "door_close", "fault"}
ScriptSequences ==
    {event_sequence} \cup UNION {[1 .. n -> ScriptEvents] : n \in 1 .. MaxSequence}

\* what the guard function of (state, event) returns in this session
ScriptReturn(state, event) ==
    IF script.door_clear \in Returns(transition_matrix, state, event)
    THEN script.door_clear ELSE TRUE

\* one iteration of run_sequence's loop inside run_all, `events` being what is
\* left of the sequence, during the run numbered `run` ("first" or "second")
ScriptIteration(events, run) ==
    LET event == Head(events)
        r == ScriptReturn(current_state, event)
        outcome == Outcome(transition_matrix, current_state, event, r)
        rest == Remaining(events, outcome)
        new_state == StateAfterTransition(current_state, event, outcome)
        finished == rest = <<>>
    IN
    /\ Transition(event, r)
    /\ pending' = rest
    /\ script' = [script EXCEPT
                    !.phase = IF finished THEN run \o "_done" ELSE run,
                    !.occupied = IF run = "first" /\ outcome = "applied"
                                 THEN Append(@, new_state) ELSE @,
                    !.first_final = IF run = "first" /\ finished
                                    THEN new_state ELSE @]

\* run_all(): run_sequence(self.event_sequence), the loop is entered and its
\* first iteration runs
ScriptRunAll ==
    /\ script.phase \in {"loaded", "reset"}
    /\ pending = <<>>
    /\ ScriptIteration(script.sequence,
                       IF script.phase = "loaded" THEN "first" ELSE "second")
    /\ UNCHANGED <<program, runVars, both>>

\* a later iteration of run_sequence's loop
ScriptStep ==
    /\ script.phase \in {"first", "second"}
    /\ pending # <<>>
    /\ ScriptIteration(pending, script.phase)
    /\ UNCHANGED <<program, runVars, both>>

\* reset() after the first run_all
ScriptReset ==
    /\ script.phase = "first_done"
    /\ current_state' = ResetState(current_state)
    /\ state_history' = ResetHistory(state_history)
    /\ log' = LogRecord("reset", None, 0, current_state, "reset", TRUE)
    /\ script' = [script EXCEPT !.phase = "reset"]
    /\ UNCHANGED pending
    /\ UNCHANGED <<program, runVars, both>>

\* goback(steps) after the first run_all
ScriptGoback(steps) ==
    /\ script.phase = "first_done"
    /\ current_state' = GobackState(state_history, current_state, steps)
    /\ state_history' = GobackHistory(state_history, steps)
    /\ log' = LogRecord("goback", None, steps, current_state,
                        GobackOutcome(state_history, steps), TRUE)
    /\ script' = [script EXCEPT !.phase = "rewound", !.steps = steps]
    /\ UNCHANGED pending
    /\ UNCHANGED <<program, runVars, both>>

\* no machines loaded by load_two
NoBoth ==
    [task |-> 0, outcome |-> None, state |-> <<>>, history |-> <<>>,
     sequence |-> <<>>, index |-> <<>>, at |-> <<>>]

\* load_state_machine() of the session's configuration
InitScript ==
    /\ program = "cli"
    /\ InitCli
    /\ InitNoMachines
    /\ both = NoBoth
    /\ script \in {[phase |-> "loaded", sequence |-> s, door_clear |-> g,
                     occupied |-> <<initial_state>>, first_final |-> None,
                     steps |-> 0] : s \in ScriptSequences, g \in BOOLEAN}

NextScript ==
    \/ ScriptRunAll
    \/ ScriptStep
    \/ ScriptReset
    \/ \E steps \in 1 .. MaxSteps : ScriptGoback(steps)

----------------------------------------------------------------------------
(* cli_state_machine.py : load_two and run_both *)

\* `both` holds, for the machines m = 1, 2 of load_two: state[m] and history[m]
\* (current_state and state_history of machine m), sequence[m] (its
\* event_sequence), index[m] (the position of run_machine(m)'s for loop) and
\* at[m], where the task run_machine(m) is suspended:
\*     "sleep"  in asyncio.sleep(1), before transition(event)
\*     "call"   in run_event_in_machine's asyncio.sleep(0.5)
\*     "done"   the for loop is exhausted
\* `task` is the task that took the last step, 0 before any, and `outcome`
\* what the transition of that step decided.

\* config["transitions"] of the two files given to load_two
FirstTransitions ==
    [Idle      |-> [up                     |-> Str("MovingUp"),
                    trigger_machine2_event |-> Str("Idle"),
                    event_from_machine2    |-> Str("Emergency")],
     MovingUp  |-> [stop                   |-> Str("Idle"),
                    event_from_machine2    |-> Str("Emergency")],
     Emergency |-> [reset                  |-> Str("Idle")]]

SecondTransitions ==
    [Ready        |-> [insert_money           |-> Str("HasMoney"),
                       trigger_machine1_event |-> Str("Ready"),
                       event_from_machine1    |-> Str("OutOfService")],
     HasMoney     |-> [cancel                 |-> Str("Ready"),
                       event_from_machine1    |-> Str("OutOfService")],
     OutOfService |-> [repair                 |-> Str("Ready")]]

BothTransitions(m) == IF m = 1 THEN FirstTransitions ELSE SecondTransitions

\* config["event_sequence"] of the two files: the lists explored
BothEvents(m) ==
    IF m = 1 THEN {"up", "stop", "trigger_machine2_event"}
    ELSE {"insert_money", "trigger_machine1_event"}
BothSequences(m) == UNION {[1 .. n -> BothEvents(m)] : n \in 0 .. MaxBoth}

\* the event of machine t's sequence that makes run_machine call the peer, and
\* the event it then runs in the peer
TriggerEvent(t) == IF t = 1 THEN "trigger_machine2_event" ELSE "trigger_machine1_event"
EventFromMachine(t) == IF t = 1 THEN "event_from_machine1" ELSE "event_from_machine2"

\* where run_machine(t) is once the iteration at position i is over
AtAfter(t, i) == IF i >= Len(both.sequence[t]) THEN "done" ELSE "sleep"

\* machine.transition(event) called by task t on machine m, after which task t
\* is at `at` with its loop at position `index`
BothApply(t, m, event, at, index) ==
    \E r \in Returns(BothTransitions(m), both.state[m], event) :
        LET outcome == Outcome(BothTransitions(m), both.state[m], event, r) IN
        both' = [both EXCEPT
                   !.task = t,
                   !.outcome = outcome,
                   !.history[m] = HistoryAfterTransition(@, both.state[m], outcome),
                   !.state[m] = IF outcome = "applied"
                                THEN Target(BothTransitions(m), @, event) ELSE @,
                   !.at[t] = at,
                   !.index[t] = index]

\* run_machine(machine t): asyncio.sleep(1) is over, machine.transition(event)
BothTransition(t) ==
    /\ program = "run_both"
    /\ both.at[t] = "sleep"
    /\ LET i == both.index[t]
           event == both.sequence[t][i]
       IN IF event = TriggerEvent(t)
          THEN BothApply(t, t, event, "call", i)
          ELSE BothApply(t, t, event, AtAfter(t, i), i + 1)
    /\ UNCHANGED <<program, cliVars, runVars, script>>

\* run_event_in_machine(peer, event) awaited by run_machine(machine t):
\* asyncio.sleep(0.5) is over, machine.transition(event) on the peer
BothRunEventInMachine(t) ==
    /\ program = "run_both"
    /\ both.at[t] = "call"
    /\ BothApply(t, Peer(t), EventFromMachine(t), AtAfter(t, both.index[t]),
                 both.index[t] + 1)
    /\ UNCHANGED <<program, cliVars, runVars, script>>

\* load_two, then run_both_machines() has created the two tasks
InitBoth ==
    \E s1 \in BothSequences(1), s2 \in BothSequences(2) :
        LET sequence == <<s1, s2>> IN
        both = [task |-> 0, outcome |-> None,
                state |-> <<"Idle", "Ready">>,
                history |-> << <<"Idle">>, <<"Ready">> >>,
                sequence |-> sequence,
                index |-> <<1, 1>>,
                at |-> [m \in Machines |->
                          IF sequence[m] = <<>> THEN "done" ELSE "sleep"]]

NextBoth ==
    \/ \E t \in Machines : BothTransition(t)
    \/ \E t \in Machines : BothRunEventInMachine(t)

----------------------------------------------------------------------------
(* The programs *)

Init ==
    /\ program \in {"cli", "run_both", "basic"}
    /\ InitCli
    /\ IF program = "basic" THEN InitBasic ELSE InitNoMachines
    /\ script = NoScript
    /\ IF program = "run_both" THEN InitBoth ELSE both = NoBoth

Next == NextCli \/ NextBoth \/ NextBasic

Spec == Init /\ [][Next]_vars

\* main() of basic_state_machine.py alone: each machine is constructed with the
\* queue of the other, and the event loop gives every runner that can take a
\* step its turn
InitMain ==
    /\ program = "basic"
    /\ InitCli
    /\ InitBasic
    /\ \A m \in Machines : other_machine_queue[m] = Peer(m)
    /\ script = NoScript
    /\ both = NoBoth

SpecMain ==
    /\ InitMain
    /\ [][NextBasic]_vars
    /\ \A m \in Machines : WF_vars(Run(m))

\* Two machines of basic_state_machine.py used by code that assigns
\* machine.timeout_duration after construction and has not put terminate on
\* the queues yet: the only use of the class in which wait_for can time out.
CallerTimeout == 1

InitTimeout ==
    /\ program = "basic"
    /\ InitCli
    /\ mstate = [m \in Machines |-> MachineInitialState(m)]
    /\ timeout_duration \in [Machines -> {NoTimeout, CallerTimeout}]
    /\ timeout_task = [m \in Machines |-> NoTask]
    /\ rlog = RunLog(0, None, None, "constructed", TRUE, None)
    /\ other_machine_queue = [m \in Machines |-> Peer(m)]
    /\ \E seed \in [Machines -> Seeds(1) \cup Seeds(2)] :
         /\ \A m \in Machines : seed[m] \in Seeds(m)
         /\ queue = [m \in Machines |-> <<"start">> \o seed[m]]
    /\ enqueued = queue
    /\ received = [m \in Machines |-> <<>>]
    /\ running = [m \in Machines |-> TRUE]
    /\ script = NoScript
    /\ both = NoBoth

NextTimeout == \E m \in Machines : Run(m) \/ RunTimeout(m)

SpecTimeout == InitTimeout /\ [][NextTimeout]_vars

\* one machine at the prompt, goback being given at least one step
InitRewind ==
    /\ program = "cli"
    /\ InitCli
    /\ InitNoMachines
    /\ script = NoScript
    /\ both = NoBoth

SpecRewind == InitRewind /\ [][NextCliRewind]_vars

\* the scripted sessions of the cli machine
SpecScript == InitScript /\ [][NextScript]_vars

----------------------------------------------------------------------------
(* Properties *)

\* (state, event) is declared in the table
Declared(matrix, state, event) ==
    /\ state \in DOMAIN matrix
    /\ event \in DOMAIN matrix[state]

\* (state, event) is declared with a target and without a guard
DeclaredUnguarded(matrix, state, event) ==
    /\ Declared(matrix, state, event)
    /\ Guard(matrix, state, event) = None
    /\ Target(matrix, state, event) # None

\* (state, event) is declared with a guard that is not registered, or that
\* returned FALSE
DeclaredBlocked(matrix, state, event, returned) ==
    /\ Declared(matrix, state, event)
    /\ Guard(matrix, state, event) # None
    /\ (Guard(matrix, state, event) \notin GuardFunctions \/ ~returned)

\* (state, event) is declared with a target and its guard, if any, is registered
\* and returned TRUE
DeclaredPassing(matrix, state, event, returned) ==
    /\ Declared(matrix, state, event)
    /\ Target(matrix, state, event) # None
    /\ \/ Guard(matrix, state, event) = None
       \/ Guard(matrix, state, event) \in GuardFunctions /\ returned

\* this step is transition(event) of the cli machine
CliTransitionStep == program = "cli" /\ log'.op = "transition"

\* this step is machine m handling an event other than terminate
MachineTransitionStep(m) ==
    program = "basic" /\ rlog'.machine = m /\ rlog'.event # "terminate"

\* the queues of all machines but m are as before
OtherQueuesUnchanged(m) == \A k \in Machines \ {m} : queue'[k] = queue[k]

Last(seq) == seq[Len(seq)]

\* C1: an event declared for the current state with no guard moves the machine
\* to the declared target; in the cli machine state_history grows by exactly one
\* entry, the old state.
C1_UnguardedTransitionApplies ==
    [][/\ (CliTransitionStep
           /\ DeclaredUnguarded(transition_matrix, current_state, log'.arg))
          => /\ current_state' = Target(transition_matrix, current_state, log'.arg)
             /\ state_history' = Append(state_history, current_state)
       /\ \A m \in Machines :
            (MachineTransitionStep(m)
             /\ DeclaredUnguarded(MachineTransitions(m), mstate[m], rlog'.event))
            => mstate'[m] = Target(MachineTransitions(m), mstate[m], rlog'.event)
      ]_vars

C1_Witness ==
    /\ program = "cli"
    /\ log.op = "transition"
    /\ DeclaredUnguarded(transition_matrix, log.state, log.arg)
    /\ log.state # current_state
    /\ Len(state_history) >= 3

\* C2: an event whose rule names a guard that is not registered or that returns
\* false changes neither the current state nor the history, and nothing is put
\* on the peer's queue.
C2_BlockedGuardChangesNothing ==
    [][/\ (CliTransitionStep
           /\ DeclaredBlocked(transition_matrix, current_state, log'.arg,
                              log'.returned))
          => UNCHANGED <<current_state, state_history>>
       /\ \A m \in Machines :
            (MachineTransitionStep(m)
             /\ DeclaredBlocked(MachineTransitions(m), mstate[m], rlog'.event,
                                rlog'.returned))
            => /\ mstate'[m] = mstate[m]
               /\ OtherQueuesUnchanged(m)
               /\ enqueued' = enqueued
      ]_vars

\* a machine with a peer was refused an event by an unregistered guard although
\* the communications table has an entry for the rule's target and the event
C2_Witness ==
    /\ program = "basic"
    /\ rlog.machine = 1
    /\ other_machine_queue[1] = 2
    /\ rlog.event = "repair"
    /\ DeclaredBlocked(MachineTransitions(1), rlog.state, rlog.event, rlog.returned)
    /\ CommsEvent(1, Target(MachineTransitions(1), rlog.state, rlog.event),
                  rlog.event) # None

\* C3: an event that is not declared for the current state is reported as an
\* invalid transition, changes neither the current state nor the history, and
\* the machine goes on with the next event.
C3_UndeclaredEventIsInvalid ==
    [][/\ (CliTransitionStep
           /\ ~Declared(transition_matrix, current_state, log'.arg))
          => /\ log'.outcome = "invalid"
             /\ UNCHANGED <<current_state, state_history>>
             /\ pending # <<>> => pending' = Tail(pending)
       /\ \A m \in Machines :
            (MachineTransitionStep(m)
             /\ ~Declared(MachineTransitions(m), mstate[m], rlog'.event))
            => /\ rlog'.outcome = "invalid"
               /\ mstate'[m] = mstate[m]
               /\ running'[m]
               /\ OtherQueuesUnchanged(m)
      ]_vars

\* "select_item" was applied in state "Idle"
C3_Witness ==
    /\ program = "cli"
    /\ log.op = "transition"
    /\ log.arg = "select_item"
    /\ log.state = "Idle"
    /\ ~Declared(transition_matrix, log.state, log.arg)
    /\ current_state = "Idle"

\* the communications table of machine m has an entry for (state, event)
HasCommsEntry(m, state, event) ==
    /\ state \in DOMAIN MachineCommunications(m)
    /\ event \in DOMAIN MachineCommunications(m)[state]

\* C4: each time a machine with a peer applies an event and enters a state for
\* which the communications table has an entry for that event, the peer's queue
\* grows by exactly the one event the entry names.
C4_ForwardsExactlyOne ==
    [][\A m \in Machines :
         (/\ MachineTransitionStep(m)
          /\ other_machine_queue[m] # 0
          /\ DeclaredPassing(MachineTransitions(m), mstate[m], rlog'.event,
                             rlog'.returned)
          /\ HasCommsEntry(m, Target(MachineTransitions(m), mstate[m], rlog'.event),
                           rlog'.event))
         => LET target == Target(MachineTransitions(m), mstate[m], rlog'.event)
                sent == MachineCommunications(m)[target][rlog'.event].event
            IN /\ mstate'[m] = target
               /\ queue'[Peer(m)] = Append(queue[Peer(m)], sent)
               /\ enqueued'[Peer(m)] = Append(enqueued[Peer(m)], sent)
      ]_vars

\* machine 1 entered Emergency on emergency_trigger and machine 2's queue ends
\* with the forwarded out_of_service
C4_Witness ==
    /\ program = "basic"
    /\ rlog.machine = 1
    /\ rlog.event = "emergency_trigger"
    /\ mstate[1] = "Emergency"
    /\ rlog.state # "Emergency"
    /\ other_machine_queue[1] = 2
    /\ queue[2] # <<>>
    /\ Last(queue[2]) = "out_of_service"

\* the timeouts declared by the rules leaving `state`
DeclaredTimeouts(matrix, state) ==
    {matrix[state][e].timeout :
        e \in {x \in DOMAIN matrix[state] :
                  matrix[state][x].kind = "dict" /\ matrix[state][x].timeout # NoTimeout}}

\* the smallest timeout declared by the rules leaving `state`
TimeoutFor(matrix, state) ==
    CHOOSE t \in DeclaredTimeouts(matrix, state) :
        \A u \in DeclaredTimeouts(matrix, state) : t <= u

\* C5: while a runner is in a state whose outgoing rules declare a timeout, it
\* waits for the next event with the smallest of these timeouts.
C5_WaitsWithStateTimeout ==
    \A m \in Machines :
        (/\ program = "basic"
         /\ running[m]
         /\ DeclaredTimeouts(MachineTransitions(m), mstate[m]) # {})
        => WaitTimeout(m) = TimeoutFor(MachineTransitions(m), mstate[m])

\* C6: a runner takes the events of its queue in the order they were put
\* there: what it has received followed by what is still queued is what was
\* enqueued.
C6_QueueIsFifo ==
    program = "basic" =>
        \A m \in Machines : received[m] \o queue[m] = enqueued[m]

\* a machine has taken three events while an event forwarded by its peer waits
C6_Witness ==
    /\ program = "basic"
    /\ \E m \in Machines :
         /\ Len(received[m]) >= 3
         /\ queue[m] # <<>>
         /\ Len(enqueued[m]) > MaxSeed + 2
         /\ received[m][2] # received[m][3]

\* C7: the step that takes terminate leaves the loop, and once terminate has
\* been taken the machine's state never changes and it takes no further event.
C7_TerminateEndsRunner ==
    [][\A m \in Machines :
         /\ (program = "basic" /\ rlog'.machine = m /\ rlog'.event = "terminate"
             /\ received'[m] # received[m])
            => ~running'[m]
         /\ (program = "basic" /\ received[m] # <<>>
             /\ Last(received[m]) = "terminate")
            => /\ mstate'[m] = mstate[m]
               /\ received'[m] = received[m]
               /\ ~running'[m]
      ]_vars

\* a machine has stopped while an event forwarded by its peer is in its queue
C7_Witness ==
    /\ program = "basic"
    /\ \E m \in Machines :
         /\ ~running[m]
         /\ Last(received[m]) = "terminate"
         /\ queue[m] # <<>>
         /\ ~running[Peer(m)]

\* this step is goback(steps) of the cli machine
GobackStep == program = "cli" /\ log'.op = "goback"

\* C8: goback(0) changes neither the current state nor the history.
C8_GobackZeroIsNoOp ==
    [][(GobackStep /\ log'.steps = 0)
       => UNCHANGED <<current_state, state_history>>]_vars

C10_GobackRewindsAndTruncates ==
    [][(GobackStep /\ 0 <= log'.steps /\ log'.steps <= Len(state_history) - 1)
       => /\ current_state' = state_history[Len(state_history) - log'.steps]
          /\ state_history' =
                SubSeq(state_history, 1, Len(state_history) - log'.steps)]_vars


\* C11: goback(len(history) - 1) returns the machine to the initial state.
C11_GobackAllReturnsToInitial ==
    [][(GobackStep /\ log'.steps = Len(state_history) - 1)
       => current_state' = initial_state]_vars

\* this step is goto(state) of the cli machine
GotoStep == program = "cli" /\ log'.op = "goto"

\* C12: goto(state) for a declared state makes it the current state and appends
\* the state the machine was in before the call to the history.
C12_GotoJumpsAndRecordsOldState ==
    [][(GotoStep /\ log'.arg \in DOMAIN transition_matrix)
       => /\ current_state' = log'.arg
          /\ state_history' = Append(state_history, current_state)]_vars

\* C13: goto(state) for a state that is not a key of the transition table
\* changes neither the current state nor the history.
C13_GotoUnknownStateChangesNothing ==
    [][(GotoStep /\ log'.arg \notin DOMAIN transition_matrix)
       => /\ log'.outcome = "no_such_state"
          /\ UNCHANGED <<current_state, state_history>>]_vars

\* goto was refused away from the initial state
C13_Witness ==
    /\ program = "cli"
    /\ log.op = "goto"
    /\ log.arg = "Basement"
    /\ log.arg \notin DOMAIN transition_matrix
    /\ log.state = current_state
    /\ current_state # initial_state
    /\ Len(state_history) >= 2

\* C14: reset() makes the initial state the current state and leaves the
\* history as it is.
C14_ResetKeepsHistory ==
    [][(program = "cli" /\ log'.op = "reset")
       => /\ current_state' = initial_state
          /\ state_history' = state_history]_vars

\* reset was called away from the initial state with a history of three entries
C14_Witness ==
    /\ program = "cli"
    /\ log.op = "reset"
    /\ log.state # initial_state
    /\ current_state = initial_state
    /\ Len(state_history) >= 3


\* C15: with the guard outcomes fixed, run_all from a freshly loaded machine,
\* then reset(), then run_all again ends in the state the first run_all ended in.
C15_ReplayIsDeterministic ==
    script.phase = "second_done" => current_state = script.first_final

\* a replay has finished after a first run that moved the machine away from
\* the initial state, met a blocked guard and left several states in the history
C15_Witness ==
    /\ script.phase = "second_done"
    /\ script.first_final # initial_state
    /\ ~script.door_clear
    /\ Len(script.occupied) > 2
    /\ Len(state_history) > Len(script.occupied)

\* the states of the elevator scenario
ElevatorScenarioStates == <<"Idle", "MovingUp", "Idle", "Emergency", "Idle">>

\* C16: the sequence up, stop, emergency_trigger, reset applied to the elevator
\* from Idle makes current_state take the values Idle, MovingUp, Idle,
\* Emergency, Idle, one after each event.
C16_ElevatorScenario ==
    (script.sequence = ElevatorEventSequence /\ script.phase \in {"first", "first_done"})
        => LET done == Len(script.sequence) - Len(pending) IN
           /\ script.occupied = SubSeq(ElevatorScenarioStates, 1, done + 1)
           /\ current_state = ElevatorScenarioStates[done + 1]

\* the scenario has run to its end
C16_Witness ==
    /\ script.sequence = <<"up", "stop", "emergency_trigger", "reset">>
    /\ script.phase = "first_done"
    /\ script.occupied = ElevatorScenarioStates
    /\ current_state = "Idle"

\* C20: after k >= n applied transitions from a freshly loaded machine,
\* goback(n) with n >= 1 sets current_state to the state the machine occupied
\* n transitions earlier.
C20_GobackRewindsNTransitions ==
    (/\ script.phase = "rewound"
     /\ Len(script.occupied) = Len(script.sequence) + 1
     /\ script.steps >= 1
     /\ Len(script.sequence) >= script.steps)
        => current_state = script.occupied[Len(script.occupied) - script.steps]


\* C17: the state and the history of a machine that runs concurrently with
\* another are written only by the task that runs that machine; the other task
\* acts on it only by putting an event on its queue.
C17_StateWrittenByOwnTaskOnly ==
    [][/\ program = "basic"
          => \A m \in Machines :
                m # rlog'.machine => mstate'[m] = mstate[m]
       /\ program = "run_both"
          => \A m \in Machines :
                m # both'.task => /\ both'.state[m] = both.state[m]
                                  /\ both'.history[m] = both.history[m]]_vars


\* what transition decides when it does not apply the event
EventFailures == {"invalid", "guard_missing", "guard_false", "key_error"}

\* C18: a runner whose transition was invalid, blocked by a guard or raised an
\* exception stays in its loop; a runner in its loop takes the next event of its
\* queue whenever there is one; and a runner leaves its loop only by taking
\* terminate.
C18_FailuresDoNotStopRunner ==
    [][\A m \in Machines :
         /\ (MachineTransitionStep(m) /\ rlog'.outcome \in EventFailures)
            => running'[m]
         /\ (program = "basic" /\ running[m] /\ queue[m] # <<>>)
            => ENABLED Run(m)
         /\ (program = "basic" /\ running[m] /\ ~running'[m])
            => /\ rlog'.machine = m
               /\ rlog'.event = "terminate"
      ]_vars

\* the elevator raised on fault (a rule without target) in Emergency, and has
\* since taken the next event of its queue
C18_Witness ==
    /\ program = "basic"
    /\ Len(received[1]) = 4
    /\ SubSeq(received[1], 1, 3) = <<"start", "emergency_trigger", "fault">>
    /\ mstate[1] = "Emergency"
    /\ rlog.machine = 1
    /\ rlog.event = received[1][4]


\* C19: with every queue seeded with a finite list of events followed by
\* terminate and both runners started, every runner eventually leaves its loop,
\* so that gather returns, in every interleaving of the runners and whatever
\* they forward to each other.
C19_GroupShutdownTerminates ==
    (program = "basic" /\ \A m \in Machines : running[m])
        ~> (\A m \in Machines : ~running[m])

\* both runners have stopped, one of them having been sent an event by the other
C19_Witness ==
    /\ program = "basic"
    /\ \A m \in Machines : ~running[m] /\ Last(received[m]) = "terminate"
    /\ \E m \in Machines : Len(enqueued[m]) > Len(received[m])


\* C21: once an event taken from the queue has moved machine m to a new state,
\* no timeout armed before that transition is left to fire, and the next wait
\* uses the timeout of the new current state.
C21_NoStaleTimeout ==
    [][\A m \in Machines :
         (MachineTransitionStep(m) /\ rlog'.outcome = "applied")
            => /\ timeout_task'[m] = NoTask
               /\ DeclaredTimeouts(MachineTransitions(m), mstate'[m]) # {}
                  => timeout_duration'[m] =
                         TimeoutFor(MachineTransitions(m), mstate'[m])
      ]_vars

\* the position of the first terminate in seq
FirstTerminate(seq) ==
    CHOOSE i \in 1 .. Len(seq) :
        /\ seq[i] = "terminate"
        /\ \A j \in 1 .. i - 1 : seq[j] # "terminate"

\* C22: a runner that has stopped has taken every event put on its queue ahead
\* of terminate, in order, and terminate last; and each of these events was
\* handled to its end in the step that took it: the runner was still in its
\* loop afterwards and what the transition sent was on the peer's queue.
C22_TerminateIsCooperative ==
    [][\A m \in Machines :
         /\ (program = "basic" /\ ~running[m])
            => received[m] = SubSeq(enqueued[m], 1, FirstTerminate(enqueued[m]))
         /\ MachineTransitionStep(m)
            => /\ running'[m]
               /\ rlog'.sent # None
                  => /\ other_machine_queue[m] # 0
                     /\ Last(queue'[other_machine_queue[m]]) = rlog'.sent
      ]_vars

\* the elevator has stopped after taking start, two seed events and terminate,
\* one of the seed events having sent out_of_service to the vending machine
C22_Witness ==
    /\ program = "basic"
    /\ ~running[1]
    /\ Len(received[1]) = 4
    /\ received[1][2] = "emergency_trigger"
    /\ other_machine_queue[1] = 2
    /\ \E i \in 1 .. Len(enqueued[2]) : enqueued[2][i] = "out_of_service"


\* C23: when a machine without a peer queue applies an event and enters a state
\* for which the communications table has an entry for that event, the
\* transition takes effect, nothing is sent, no queue changes but for the event
\* taken, no error is raised and the runner stays in its loop.
C23_NoPeerDropsForwardedEvent ==
    [][\A m \in Machines :
         (/\ MachineTransitionStep(m)
          /\ other_machine_queue[m] = 0
          /\ DeclaredPassing(MachineTransitions(m), mstate[m], rlog'.event,
                             rlog'.returned)
          /\ HasCommsEntry(m, Target(MachineTransitions(m), mstate[m], rlog'.event),
                           rlog'.event))
         => /\ mstate'[m] = Target(MachineTransitions(m), mstate[m], rlog'.event)
            /\ rlog'.outcome = "applied"
            /\ rlog'.sent = None
            /\ OtherQueuesUnchanged(m)
            /\ enqueued' = enqueued
            /\ running'[m]
      ]_vars

\* the elevator, constructed without a peer queue, entered Emergency on
\* emergency_trigger, for which its communications name out_of_service, and is
\* still running
C23_Witness ==
    /\ program = "basic"
    /\ other_machine_queue[1] = 0
    /\ rlog.machine = 1
    /\ rlog.event = "emergency_trigger"
    /\ rlog.outcome = "applied"
    /\ mstate[1] = "Emergency"
    /\ HasCommsEntry(1, "Emergency", "emergency_trigger")
    /\ enqueued[2] = received[2] \o queue[2]
    /\ Len(enqueued[2]) <= MaxSeed + 2
    /\ running[1]

\* what transition decides when the event is invalid in the current state or
\* its guard blocks it
EventRefusals == {"invalid", "guard_missing", "guard_false"}

\* C26: an event that is invalid in the current state, or whose guard blocks
\* it, puts nothing on any queue, whatever the communications table says.
C26_NoForwardingWithoutTransition ==
    [][\A m \in Machines :
         (MachineTransitionStep(m) /\ rlog'.outcome \in EventRefusals)
         => /\ rlog'.sent = None
            /\ OtherQueuesUnchanged(m)
            /\ queue'[m] = Tail(queue[m])
            /\ enqueued' = enqueued
      ]_vars

\* the elevator, wired to the vending machine, was given repair in Idle, where
\* it is invalid although the communications table has an entry for (Idle,
\* repair); nothing was sent
C26_Witness ==
    /\ program = "basic"
    /\ other_machine_queue[1] = 2
    /\ rlog.machine = 1
    /\ rlog.event = "repair"
    /\ rlog.state = "Idle"
    /\ rlog.outcome = "invalid"
    /\ HasCommsEntry(1, "Idle", "repair")
    /\ rlog.sent = None
    /\ \A i \in 1 .. Len(enqueued[2]) : enqueued[2][i] # "repair"


\* C24: when the wait of a runner times out in a state without a "timeout"
\* rule, the machine stays in its state, nothing is sent, no queue changes and
\* the runner stays in its loop, where it waits again.
C24_TimeoutWithoutRuleKeepsWaiting ==
    [][\A m \in Machines :
         (/\ program = "basic"
          /\ rlog'.machine = m
          /\ rlog'.event = "timeout"
          /\ received'[m] = received[m]
          /\ "timeout" \notin DOMAIN DictGet(MachineTransitions(m), mstate[m],
                                              EmptyDict))
         => /\ mstate'[m] = mstate[m]
            /\ rlog'.sent = None
            /\ queue' = queue
            /\ running'[m]
      ]_vars

\* the elevator's wait timed out in Emergency, which has no "timeout" rule, after
\* emergency_trigger had been taken; the elevator is still running on an empty
\* queue
C24_Witness ==
    /\ program = "basic"
    /\ rlog.machine = 1
    /\ rlog.event = "timeout"
    /\ rlog.state = "Emergency"
    /\ mstate[1] = "Emergency"
    /\ timeout_duration[1] # NoTimeout
    /\ Len(received[1]) >= 2
    /\ queue[1] = <<>>
    /\ running[1]


\* s is a prefix of t
IsPrefix(s, t) == Len(s) <= Len(t) /\ SubSeq(t, 1, Len(s)) = s

\* C25: transition (applied, blocked or invalid), goto and reset never remove
\* or rewrite a history entry: the history before is a prefix of the history
\* after.
C25_HistoryIsAppendOnly ==
    [][(program = "cli" /\ log'.op \in {"transition", "goto", "reset"})
       => IsPrefix(state_history, state_history')]_vars

\* a transition was applied to a machine whose history already held three
\* entries, which are still there
C25_Witness ==
    /\ program = "cli"
    /\ log.op = "transition"
    /\ log.outcome = "applied"
    /\ Len(state_history) >= 4
    /\ Last(state_history) = log.state
    /\ state_history[1] = initial_state

\* the targets the rules of a table name
Targets(matrix) ==
    UNION {{Normalize(matrix[s][e]).target : e \in DOMAIN matrix[s]} :
              s \in DOMAIN matrix} \ {None}

\* C28: if the initial state and every target of the transition table are keys
\* of the table, then current_state is a key of the table after any sequence of
\* transition, goto, reset and goback.
C28_CurrentStateIsDeclared ==
    (/\ program = "cli"
     /\ initial_state \in DOMAIN transition_matrix
     /\ Targets(transition_matrix) \subseteq DOMAIN transition_matrix)
        => current_state \in DOMAIN transition_matrix

\* goback(0) has emptied the history and left the machine in Emergency
C28_Witness ==
    /\ program = "cli"
    /\ Targets(transition_matrix) \subseteq DOMAIN transition_matrix
    /\ log.op = "goback"
    /\ log.steps = 0
    /\ log.outcome = "reverted"
    /\ current_state = "Emergency"
    /\ state_history = <<>>

\* C30: under any sequence of transition, goto, reset and goback(steps) with
\* steps >= 1, the history is never empty and its first entry is the initial
\* state.
C30_HistoryStartsWithInitialState ==
    program = "cli" => /\ state_history # <<>>
                       /\ state_history[1] = initial_state

\* goback has cut a history of at least three entries down to its first entry
C30_Witness ==
    /\ program = "cli"
    /\ log.op = "goback"
    /\ log.outcome = "reverted"
    /\ log.steps >= 2
    /\ state_history = <<initial_state>>


\* C27: every change of a machine's state from s to t in the queue-driven
\* runner is made by that machine's runner handling an event e, taken from the
\* head of its own queue or the "timeout" of an expired wait, for which the
\* table declares transitions[s][e] with target t.
C27_StateChangesByDeclaredTransition ==
    [][\A m \in Machines :
         (program = "basic" /\ mstate'[m] # mstate[m])
         => LET e == rlog'.event IN
            /\ rlog'.machine = m
            /\ Declared(MachineTransitions(m), mstate[m], e)
            /\ Target(MachineTransitions(m), mstate[m], e) = mstate'[m]
            /\ \/ /\ queue[m] # <<>>
                  /\ e = Head(queue[m])
                  /\ received'[m] = Append(received[m], e)
               \/ /\ e = "timeout"
                  /\ queue[m] = <<>>
                  /\ received'[m] = received[m]
      ]_vars

\* the elevator has gone from Idle to DoorOpen on door_open taken from its
\* queue and back to Idle on the timeout of its wait
C27_Witness ==
    /\ program = "basic"
    /\ rlog.machine = 1
    /\ rlog.event = "timeout"
    /\ rlog.state = "DoorOpen"
    /\ rlog.outcome = "applied"
    /\ mstate[1] = "Idle"
    /\ Last(received[1]) = "door_open"

\* C29: in main() every queue holds terminate before a runner starts, so an
\* event a machine sends to the other is put behind the receiver's terminate,
\* and a runner only ever takes events that main() put ahead of terminate, and
\* terminate itself: it never takes an event the other machine sent.
C29_ForwardedEventsAreNeverApplied ==
    [][\A m \in Machines :
         /\ (program = "basic" /\ rlog'.machine = m /\ rlog'.sent # None
             /\ enqueued'[Peer(m)] # enqueued[Peer(m)])
            => /\ \E i \in 1 .. Len(enqueued[Peer(m)]) :
                     enqueued[Peer(m)][i] = "terminate"
               /\ enqueued'[Peer(m)] = Append(enqueued[Peer(m)], rlog'.sent)
         /\ program = "basic"
            => /\ \E i \in 1 .. Len(enqueued[m]) : enqueued[m][i] = "terminate"
               /\ IsPrefix(received'[m],
                           SubSeq(enqueued[m], 1, FirstTerminate(enqueued[m])))
      ]_vars

\* both runners have stopped and the vending machine's queue still holds the
\* out_of_service the elevator sent it, while the elevator's queue holds the
\* emergency_trigger the vending machine sent
C29_Witness ==
    /\ program = "basic"
    /\ \A m \in Machines : ~running[m]
    /\ queue[2] = <<"out_of_service">>
    /\ queue[1] = <<"emergency_trigger">>
    /\ mstate[2] = "OutOfService"

====
